---- MODULE Spec2Model ----
(***************************************************************************)
(* The Planning Poker participant client of src/src/App.tsx as a state     *)
(* machine.  The state is the component's React state and refs; there is   *)
(* one action per socket event handler and per user-interface handler.     *)
(* The coordinator and the room-id allocation service are the environment: *)
(* they may deliver any event of the protocol while the channel is         *)
(* connected, and answer or fail any pending room-id allocation.           *)
(***************************************************************************)
EXTENDS Integers, Sequences, FiniteSets, TLC

(* ---------------- values ---------------- *)

\* `null` of `number | null` (selectedCard) and of Player.vote.
Null == 0
\* The masked placeholder '?' of Player.vote.
Masked == 0 - 1

\* const cards = [1, 2, 3, 5, 8, 13, 21]
cards == {1, 2, 3, 5, 8, 13, 21}

(* ---------------- bounds and sampled inputs ---------------- *)

\* Longest players list a broadcast carries.
MaxPlayers == 2
\* Most room-id allocation requests (fetch) in flight at once.
MaxPending == 1
\* Longest players list the average is computed over on its own.
MaxAvgPlayers == 4
\* Most intents in flight to the coordinator, most broadcasts in flight back.
MaxOutbox == 1
MaxInbox == 2

\* What the user may have typed in the two inputs of the join form.
RoomInputs == {"", "R1"}
NameInputs == {"", "A"}
\* Room ids the allocation service may answer with.
AllocatedRoomIds == {"R2"}
\* Numeric votes a broadcast payload may carry.
PayloadNumbers == {5}
\* Cards the user may click, of the seven of the deck.
ClickedCards == {5, 8}
\* Messages of the coordinator's `error` event.
ServerErrors == {"Room not found"}

PlayerIds == 1..MaxPlayers
PlayerNameOf(id) == IF id = 1 THEN "A" ELSE "B"
\* The coordinator sends a vote as null or as a number; '?' is only ever
\* written by the client itself (the player_voted handler).
PayloadVotes == {Null} \cup PayloadNumbers

\* Player[] payloads: the first n players in join order, any vote each.
Payloads ==
  UNION { { [i \in 1..n |-> [id |-> i, name |-> PlayerNameOf(i), vote |-> v[i]]]
            : v \in [1..n -> PayloadVotes] } : n \in 0..MaxPlayers }

(* ---------------- messages and texts ---------------- *)

JoinIntent(r, n) == [type |-> "join", roomId |-> r, playerName |-> n]
VoteIntent(r, c) == [type |-> "vote", roomId |-> r, vote |-> c]
RevealIntent(r) == [type |-> "reveal", roomId |-> r]
ResetIntent(r) == [type |-> "reset", roomId |-> r]

JoinValidationMsg == "Please enter a room ID and your name."
CreateValidationMsg == "Please enter your name before creating a room."
FetchFailedMsg == "Failed to connect to the backend"

(* ---------------- state ---------------- *)

VARIABLES
  selectedCard,   \* useState<number | null>(null)
  roomId,         \* useState<string>('')
  playerName,     \* useState<string>('')
  players,        \* useState<Player[]>([])
  isRevealed,     \* useState<boolean>(false)
  isConnected,    \* useState<boolean>(false)
  error,          \* useState<string>('')
  socketRef,      \* socketRef.current is a socket (TRUE) or null (FALSE)
  pendingCreate,  \* player names captured by handleCreateRoom calls awaiting fetch
  emitted,        \* what the step just taken passed to socket.emit, in order
  lastOp,         \* the handler that ran in the step just taken
  lastPayload,    \* payload of the latest list-carrying broadcast applied since
                  \* players was last cleared locally; <<>> when there is none
  averageShown,   \* text of the "Average Estimate" panel as last rendered,
                  \* "" while the panel is not rendered
  joinCount,      \* join intents emitted while connected, since the last
                  \* connect event
  room,           \* the coordinator's canonical room "R1"
  outbox,         \* intents of this client in flight to the coordinator
  inbox           \* broadcasts and errors in flight to this client

clientVars == <<selectedCard, roomId, playerName, players, isRevealed,
                isConnected, error, socketRef, pendingCreate, emitted, lastOp,
                lastPayload, averageShown, joinCount>>

vars == <<selectedCard, roomId, playerName, players, isRevealed, isConnected,
          error, socketRef, pendingCreate, emitted, lastOp, lastPayload,
          averageShown, joinCount, room, outbox, inbox>>

Init ==
  /\ selectedCard = Null
  /\ roomId = ""
  /\ playerName = ""
  /\ players = <<>>
  /\ isRevealed = FALSE
  /\ isConnected = FALSE
  /\ error = ""
  /\ socketRef = FALSE
  /\ pendingCreate = <<>>
  /\ emitted = <<>>
  /\ lastOp = "mount"
  /\ lastPayload = <<>>
  /\ averageShown = ""
  /\ joinCount = 0
  /\ room = [players |-> <<>>, revealed |-> FALSE]
  /\ outbox = <<>>
  /\ inbox = <<>>

(* ---------------- channel set-up and transport events ---------------- *)

\* script.onload: creates the socket and registers the handlers.
ScriptOnLoad ==
  /\ ~socketRef
  /\ socketRef' = TRUE
  /\ emitted' = <<>>
  /\ lastOp' = "onload"
  /\ UNCHANGED <<selectedCard, roomId, playerName, players, isRevealed,
                 isConnected, error, pendingCreate, lastPayload>>

\* socket.on('connect')
OnConnect ==
  /\ socketRef /\ ~isConnected
  /\ isConnected' = TRUE
  /\ emitted' = <<>>
  /\ lastOp' = "connect"
  /\ UNCHANGED <<selectedCard, roomId, playerName, players, isRevealed,
                 error, socketRef, pendingCreate, lastPayload>>

\* The disconnect handler without setRoomId('').
OnDisconnect_KeepsRoom ==
  /\ socketRef /\ isConnected
  /\ isConnected' = FALSE
  /\ players' = <<>>
  /\ lastPayload' = <<>>
  /\ emitted' = <<>>
  /\ lastOp' = "disconnect"
  /\ UNCHANGED <<selectedCard, roomId, playerName, isRevealed, error,
                 socketRef, pendingCreate>>

\* socket.on('disconnect')
OnDisconnect ==
  /\ socketRef /\ isConnected
  /\ isConnected' = FALSE
  /\ roomId' = ""
  /\ players' = <<>>
  /\ lastPayload' = <<>>
  /\ emitted' = <<>>
  /\ lastOp' = "disconnect"
  /\ UNCHANGED <<selectedCard, playerName, isRevealed, error, socketRef,
                 pendingCreate>>

(* ---------------- coordinator events ---------------- *)

\* Events reach the handlers only over a connected socket.
Receiving == socketRef /\ isConnected

\* The list handler keeping the old list when the payload is empty.
OnPlayerListUpdate_KeepsOnEmpty(data) ==
  /\ Receiving
  /\ players' = IF data = <<>> THEN players ELSE data
  /\ lastPayload' = data
  /\ emitted' = <<>>
  /\ lastOp' = "player_list_update"
  /\ UNCHANGED <<selectedCard, roomId, playerName, isRevealed, isConnected,
                 error, socketRef, pendingCreate>>

\* socket.on('player_list_update')
OnPlayerListUpdate(data) ==
  /\ Receiving
  /\ players' = data
  /\ lastPayload' = data
  /\ emitted' = <<>>
  /\ lastOp' = "player_list_update"
  /\ UNCHANGED <<selectedCard, roomId, playerName, isRevealed, isConnected,
                 error, socketRef, pendingCreate>>

\* prevPlayers.map(p => p.id === data.playerId ? { ...p, vote: '?' } : p)
MarkVoted(prevPlayers, playerId) ==
  [i \in DOMAIN prevPlayers |->
     IF prevPlayers[i].id = playerId
       THEN [prevPlayers[i] EXCEPT !.vote = Masked]
       ELSE prevPlayers[i]]

\* The player_voted handler also clearing the local selection.
OnPlayerVoted_ClearsSelection(playerId) ==
  /\ Receiving
  /\ players' = MarkVoted(players, playerId)
  /\ selectedCard' = Null
  /\ emitted' = <<>>
  /\ lastOp' = "player_voted"
  /\ UNCHANGED <<roomId, playerName, isRevealed, isConnected, error,
                 socketRef, pendingCreate, lastPayload>>

\* socket.on('player_voted')
OnPlayerVoted(playerId) ==
  /\ Receiving
  /\ players' = MarkVoted(players, playerId)
  /\ emitted' = <<>>
  /\ lastOp' = "player_voted"
  /\ UNCHANGED <<selectedCard, roomId, playerName, isRevealed, isConnected,
                 error, socketRef, pendingCreate, lastPayload>>

\* The reveal handler setting the flag but keeping the old list.
OnVotesRevealed_KeepsList(data) ==
  /\ Receiving
  /\ isRevealed' = TRUE
  /\ lastPayload' = players
  /\ emitted' = <<>>
  /\ lastOp' = "votes_revealed"
  /\ UNCHANGED <<selectedCard, roomId, playerName, players, isConnected,
                 error, socketRef, pendingCreate>>

\* socket.on('votes_revealed')
OnVotesRevealed(data) ==
  /\ Receiving
  /\ players' = data
  /\ isRevealed' = TRUE
  /\ lastPayload' = data
  /\ emitted' = <<>>
  /\ lastOp' = "votes_revealed"
  /\ UNCHANGED <<selectedCard, roomId, playerName, isConnected, error,
                 socketRef, pendingCreate>>

\* The reset handler without setSelectedCard(null).
OnGameReset_KeepsSelection(data) ==
  /\ Receiving
  /\ players' = data
  /\ isRevealed' = FALSE
  /\ lastPayload' = data
  /\ emitted' = <<>>
  /\ lastOp' = "game_reset"
  /\ UNCHANGED <<selectedCard, roomId, playerName, isConnected, error,
                 socketRef, pendingCreate>>

\* socket.on('game_reset')
OnGameReset(data) ==
  /\ Receiving
  /\ players' = data
  /\ selectedCard' = Null
  /\ isRevealed' = FALSE
  /\ lastPayload' = data
  /\ emitted' = <<>>
  /\ lastOp' = "game_reset"
  /\ UNCHANGED <<roomId, playerName, isConnected, error, socketRef,
                 pendingCreate>>

\* socket.on('error')
OnError(message) ==
  /\ Receiving
  /\ error' = message
  /\ emitted' = <<>>
  /\ lastOp' = "error"
  /\ UNCHANGED <<selectedCard, roomId, playerName, players, isRevealed,
                 isConnected, socketRef, pendingCreate, lastPayload>>

(* ---------------- user-interface handlers ---------------- *)

\* The guard without its room-id test.
CanVote_NoRoomCheck == ~isRevealed /\ isConnected /\ socketRef

\* The guard without its revealed test.
CanVote_IgnoresRevealed == isConnected /\ socketRef /\ roomId # ""

\* if (!isRevealed && isConnected && socketRef.current && roomId)
CanVote == ~isRevealed /\ isConnected /\ socketRef /\ roomId # ""

\* handleCardClick
HandleCardClick(card) ==
  /\ IF CanVote
       THEN /\ selectedCard' = card
            /\ emitted' = <<VoteIntent(roomId, card)>>
       ELSE /\ selectedCard' = selectedCard
            /\ emitted' = <<>>
  /\ lastOp' = "handleCardClick"
  /\ UNCHANGED <<roomId, playerName, players, isRevealed, isConnected, error,
                 socketRef, pendingCreate, lastPayload>>

\* The join form (and with it both input refs) is mounted only while !roomId;
\* ref.current?.value of an unmounted input is undefined, falsy like ''.
RoomIdInputValues == IF roomId = "" THEN RoomInputs ELSE {""}
PlayerNameInputValues == IF roomId = "" THEN NameInputs ELSE {""}

\* The guard without its player-name test.
JoinAccepted_NoNameCheck(currentRoomId, currentPlayerName) ==
  socketRef /\ currentRoomId # ""

\* The guard with a connected test added.
JoinAccepted_RequiresConnected(currentRoomId, currentPlayerName) ==
  socketRef /\ isConnected /\ currentRoomId # "" /\ currentPlayerName # ""

\* if (socketRef.current && currentRoomId && currentPlayerName)
JoinAccepted(currentRoomId, currentPlayerName) ==
  socketRef /\ currentRoomId # "" /\ currentPlayerName # ""

\* handleJoin
HandleJoin(currentRoomId, currentPlayerName) ==
  /\ IF JoinAccepted(currentRoomId, currentPlayerName)
       THEN /\ roomId' = currentRoomId
            /\ playerName' = currentPlayerName
            /\ players' = <<>>
            /\ lastPayload' = <<>>
            /\ error' = ""
            /\ emitted' = <<JoinIntent(currentRoomId, currentPlayerName)>>
       ELSE /\ error' = JoinValidationMsg
            /\ emitted' = <<>>
            /\ UNCHANGED <<roomId, playerName, players, lastPayload>>
  /\ lastOp' = "handleJoin"
  /\ UNCHANGED <<selectedCard, isRevealed, isConnected, socketRef,
                 pendingCreate>>

\* handleCreateRoom, up to the await of fetch
HandleCreateRoom(currentPlayerName) ==
  /\ IF currentPlayerName = ""
       THEN /\ error' = CreateValidationMsg
            /\ UNCHANGED pendingCreate
       ELSE /\ Len(pendingCreate) < MaxPending
            /\ pendingCreate' = Append(pendingCreate, currentPlayerName)
            /\ UNCHANGED error
  /\ emitted' = <<>>
  /\ lastOp' = "handleCreateRoom"
  /\ UNCHANGED <<selectedCard, roomId, playerName, players, isRevealed,
                 isConnected, socketRef, lastPayload>>

RemoveAt(s, i) == [j \in 1..(Len(s) - 1) |-> IF j < i THEN s[j] ELSE s[j + 1]]

\* handleCreateRoom, resumed with an ok response carrying data.roomId
CreateRoomResolved(i, newRoomId) ==
  /\ i \in DOMAIN pendingCreate
  /\ roomId' = newRoomId
  /\ playerName' = pendingCreate[i]
  /\ players' = <<>>
  /\ lastPayload' = <<>>
  /\ emitted' = IF socketRef THEN <<JoinIntent(newRoomId, pendingCreate[i])>>
                             ELSE <<>>
  /\ pendingCreate' = RemoveAt(pendingCreate, i)
  /\ lastOp' = "createRoomResolved"
  /\ UNCHANGED <<selectedCard, isRevealed, isConnected, error, socketRef>>

\* handleCreateRoom, resumed in its catch block (fetch rejected or !response.ok)
CreateRoomFailed(i) ==
  /\ i \in DOMAIN pendingCreate
  /\ error' = FetchFailedMsg
  /\ pendingCreate' = RemoveAt(pendingCreate, i)
  /\ emitted' = <<>>
  /\ lastOp' = "createRoomFailed"
  /\ UNCHANGED <<selectedCard, roomId, playerName, players, isRevealed,
                 isConnected, socketRef, lastPayload>>

(* ---------------- reveal and reset buttons ---------------- *)

\* The reset button enabled only while connected.
ResetEnabled_WhenConnected == roomId # "" /\ isConnected

\* The reset button is rendered with the game UI (roomId set), never disabled.
ResetEnabled == roomId # ""

\* The reveal button is rendered with the game UI;
\* disabled={isRevealed || !isConnected}
RevealEnabled == roomId # "" /\ ~(isRevealed \/ ~isConnected)

\* onClick={() => socketRef.current?.emit('reveal', { roomId })}
RequestReveal ==
  /\ emitted' = IF RevealEnabled /\ socketRef THEN <<RevealIntent(roomId)>>
                                               ELSE <<>>
  /\ lastOp' = "reveal"
  /\ UNCHANGED <<selectedCard, roomId, playerName, players, isRevealed,
                 isConnected, error, socketRef, pendingCreate, lastPayload>>

\* onClick={() => socketRef.current?.emit('reset', { roomId })}
RequestReset ==
  /\ emitted' = IF ResetEnabled /\ socketRef THEN <<ResetIntent(roomId)>>
                                              ELSE <<>>
  /\ lastOp' = "reset"
  /\ UNCHANGED <<selectedCard, roomId, playerName, players, isRevealed,
                 isConnected, error, socketRef, pendingCreate, lastPayload>>

(* ---------------- rendering ---------------- *)

\* players.map(p => p.vote).filter(v => typeof v === 'number')
NumericVotes(ps) ==
  SelectSeq([i \in DOMAIN ps |-> ps[i].vote], LAMBDA v : v \notin {Null, Masked})

\* votes.reduce((acc, curr) => acc + curr, 0)
RECURSIVE Sum(_)
Sum(votes) == IF votes = <<>> THEN 0 ELSE Head(votes) + Sum(Tail(votes))

\* (num / den).toFixed(1) for num >= 0, den > 0: the tenth nearest to the
\* quotient, the larger one on a tie, written with one fractional digit.
ToFixed1(num, den) ==
  LET n == (20 * num + den) \div (2 * den)
  IN  ToString(n \div 10) \o "." \o ToString(n % 10)

\* calculateAverage without its early return for an empty vote list.
calculateAverage_NoEarlyReturn(ps) ==
  LET votes == NumericVotes(ps)
  IN  IF Len(votes) = 0 THEN "NaN" ELSE ToFixed1(Sum(votes), Len(votes))

\* calculateAverage dividing by the number of players.
calculateAverage_OverAllPlayers(ps) ==
  LET votes == NumericVotes(ps)
  IN  IF Len(votes) = 0 THEN "0" ELSE ToFixed1(Sum(votes), Len(ps))

\* calculateAverage
calculateAverage(ps) ==
  LET votes == NumericVotes(ps)
  IN  IF Len(votes) = 0 THEN "0" ELSE ToFixed1(Sum(votes), Len(votes))

\* {isRevealed && player.vote !== null ? player.vote : '?'}
VoteCell(player) ==
  IF isRevealed /\ player.vote # Null THEN player.vote ELSE Masked

\* The average panel: rendered inside the game UI, {isRevealed && (...)}
AveragePanel ==
  IF roomId # "" /\ isRevealed THEN calculateAverage(players) ELSE ""

\* Number of join intents in a sequence of emitted intents.
JoinsIn(intents) == Cardinality({k \in DOMAIN intents : intents[k].type = "join"})

\* What follows every handler: React re-renders, and the join intents that
\* went out on the connected socket are counted.
AfterHandler ==
  /\ averageShown' = AveragePanel'
  /\ joinCount' = IF lastOp' \in {"connect", "disconnect"} THEN 0
                  ELSE IF isConnected THEN joinCount + JoinsIn(emitted')
                  ELSE joinCount

\* The client on its own: any coordinator may be at the other end.
Alone == AfterHandler /\ UNCHANGED <<room, outbox, inbox>>

(* ---------------- specification ---------------- *)

Next ==
  \/ ScriptOnLoad /\ Alone
  \/ OnConnect /\ Alone
  \/ OnDisconnect /\ Alone
  \/ \E data \in Payloads : OnPlayerListUpdate(data) /\ Alone
  \/ \E playerId \in PlayerIds : OnPlayerVoted(playerId) /\ Alone
  \/ \E data \in Payloads : OnVotesRevealed(data) /\ Alone
  \/ \E data \in Payloads : OnGameReset(data) /\ Alone
  \/ \E message \in ServerErrors : OnError(message) /\ Alone
  \/ \E card \in ClickedCards : HandleCardClick(card) /\ Alone
  \/ \E r \in RoomIdInputValues, n \in PlayerNameInputValues :
        HandleJoin(r, n) /\ Alone
  \/ \E n \in PlayerNameInputValues : HandleCreateRoom(n) /\ Alone
  \/ \E i \in 1..MaxPending, r \in AllocatedRoomIds :
        CreateRoomResolved(i, r) /\ Alone
  \/ \E i \in 1..MaxPending : CreateRoomFailed(i) /\ Alone
  \/ RequestReveal /\ Alone
  \/ RequestReset /\ Alone

Spec == Init /\ [][Next]_vars

(* ---------------- the average on its own ---------------- *)

\* Votes of a players list the average is computed over.
AvgVotes == {Null, Masked} \cup cards

\* The players list whose i-th entry has the vote v[i].
AvgInputs(v) ==
  [i \in DOMAIN v |-> [id |-> i, name |-> PlayerNameOf(i), vote |-> v[i]]]

\* In a room, revealed, holding any players list, the panel not yet rendered.
InitAvg ==
  /\ selectedCard = Null
  /\ roomId = "R1"
  /\ playerName = "A"
  /\ \E n \in 0..MaxAvgPlayers : \E v \in [1..n -> AvgVotes] :
       players = AvgInputs(v)
  /\ isRevealed = TRUE
  /\ isConnected = TRUE
  /\ error = ""
  /\ socketRef = TRUE
  /\ pendingCreate = <<>>
  /\ emitted = <<>>
  /\ lastOp = "votes_revealed"
  /\ lastPayload = players
  /\ averageShown = ""
  /\ joinCount = 1
  /\ room = [players |-> players, revealed |-> TRUE]
  /\ outbox = <<>>
  /\ inbox = <<>>

\* The render of the average panel.
RenderAverage ==
  /\ lastOp # "render"
  /\ averageShown' = AveragePanel
  /\ lastOp' = "render"
  /\ UNCHANGED <<selectedCard, roomId, playerName, players, isRevealed,
                 isConnected, error, socketRef, pendingCreate, emitted,
                 lastPayload, joinCount, room, outbox, inbox>>

NextAvg == RenderAverage

SpecAvg == InitAvg /\ [][NextAvg]_vars

(* ---------------- the client with a coordinator ---------------- *)

\* The coordinator of section 4.1 of the specification, holding one room,
\* "R1".  This client is the player SelfId; one other participant, PeerId,
\* joins, votes, reveals, resets and leaves at the coordinator directly.
SelfId == 1
PeerId == 2
CoordRoom == "R1"
\* The card this client clicks and the card the peer votes.
SelfCards == {5}
PeerCards == {8}
NotInRoomMsg == "Not in room"
InvalidVoteMsg == "Invalid vote"

IsMember(id) == \E i \in DOMAIN room.players : room.players[i].id = id

ListBroadcast(type, data) == [type |-> type, data |-> data]
VotedBroadcast(id) == [type |-> "player_voted", playerId |-> id]
ErrorReply(message) == [type |-> "error", message |-> message]

\* join: add the player with vote absent.
WithPlayer(ps, id, name) == Append(ps, [id |-> id, name |-> name, vote |-> Null])

\* disconnect: remove the player.
WithoutPlayer(ps, id) == SelectSeq(ps, LAMBDA p : p.id # id)

\* vote: set that player's canonical vote.
WithVote(ps, id, v) ==
  [i \in DOMAIN ps |-> IF ps[i].id = id THEN [ps[i] EXCEPT !.vote = v] ELSE ps[i]]

\* reset: every vote absent.
WithoutVotes(ps) == [i \in DOMAIN ps |-> [ps[i] EXCEPT !.vote = Null]]

\* A room whose player set becomes empty is deleted; a later join creates it
\* afresh, not revealed.
RoomOf(ps, revealed) ==
  [players |-> ps, revealed |-> IF ps = <<>> THEN FALSE ELSE revealed]

\* The coordinator applies the intent at the head of this client's channel.
CoordApply ==
  /\ isConnected
  /\ outbox # <<>>
  /\ Len(inbox) < MaxInbox
  /\ outbox' = Tail(outbox)
  /\ LET m == Head(outbox) IN
       \/ /\ m.type = "join"
          /\ LET ps == IF IsMember(SelfId) THEN room.players
                       ELSE WithPlayer(room.players, SelfId, m.playerName)
             IN  /\ room' = RoomOf(ps, room.revealed)
                 /\ inbox' = Append(inbox, ListBroadcast("player_list_update", ps))
       \/ /\ m.type = "vote"
          /\ IF ~IsMember(SelfId)
               THEN /\ inbox' = Append(inbox, ErrorReply(NotInRoomMsg))
                    /\ UNCHANGED room
               ELSE IF room.revealed \/ m.vote \notin cards
               THEN /\ inbox' = Append(inbox, ErrorReply(InvalidVoteMsg))
                    /\ UNCHANGED room
               ELSE /\ room' = RoomOf(WithVote(room.players, SelfId, m.vote), FALSE)
                    /\ inbox' = Append(inbox, VotedBroadcast(SelfId))
       \/ /\ m.type = "reveal"
          /\ IF ~IsMember(SelfId)
               THEN /\ inbox' = Append(inbox, ErrorReply(NotInRoomMsg))
                    /\ UNCHANGED room
               ELSE /\ room' = RoomOf(room.players, TRUE)
                    /\ inbox' = Append(inbox, ListBroadcast("votes_revealed", room.players))
       \/ /\ m.type = "reset"
          /\ IF ~IsMember(SelfId)
               THEN /\ inbox' = Append(inbox, ErrorReply(NotInRoomMsg))
                    /\ UNCHANGED room
               ELSE /\ room' = RoomOf(WithoutVotes(room.players), FALSE)
                    /\ inbox' = Append(inbox, ListBroadcast("game_reset", WithoutVotes(room.players)))
  /\ UNCHANGED clientVars

\* A broadcast reaches this client when it is a member of the room.
ToSelf(msg) ==
  IF IsMember(SelfId)
    THEN Len(inbox) < MaxInbox /\ inbox' = Append(inbox, msg)
    ELSE UNCHANGED inbox

PeerJoin ==
  /\ ~IsMember(PeerId)
  /\ LET ps == WithPlayer(room.players, PeerId, PlayerNameOf(PeerId))
     IN  /\ room' = RoomOf(ps, room.revealed)
         /\ ToSelf(ListBroadcast("player_list_update", ps))
  /\ UNCHANGED <<clientVars, outbox>>

PeerVote(v) ==
  /\ IsMember(PeerId) /\ ~room.revealed
  /\ room' = RoomOf(WithVote(room.players, PeerId, v), FALSE)
  /\ ToSelf(VotedBroadcast(PeerId))
  /\ UNCHANGED <<clientVars, outbox>>

PeerReveal ==
  /\ IsMember(PeerId)
  /\ room' = RoomOf(room.players, TRUE)
  /\ ToSelf(ListBroadcast("votes_revealed", room.players))
  /\ UNCHANGED <<clientVars, outbox>>

PeerReset ==
  /\ IsMember(PeerId)
  /\ room' = RoomOf(WithoutVotes(room.players), FALSE)
  /\ ToSelf(ListBroadcast("game_reset", WithoutVotes(room.players)))
  /\ UNCHANGED <<clientVars, outbox>>

PeerLeave ==
  /\ IsMember(PeerId)
  /\ LET ps == WithoutPlayer(room.players, PeerId)
     IN  /\ room' = RoomOf(ps, room.revealed)
         /\ ToSelf(ListBroadcast("player_list_update", ps))
  /\ UNCHANGED <<clientVars, outbox>>

\* The socket hands the event at the head of the channel to its handler.
Deliver ==
  /\ inbox # <<>>
  /\ inbox' = Tail(inbox)
  /\ LET m == Head(inbox) IN
       \/ m.type = "player_list_update" /\ OnPlayerListUpdate(m.data)
       \/ m.type = "player_voted" /\ OnPlayerVoted(m.playerId)
       \/ m.type = "votes_revealed" /\ OnVotesRevealed(m.data)
       \/ m.type = "game_reset" /\ OnGameReset(m.data)
       \/ m.type = "error" /\ OnError(m.message)
  /\ AfterHandler
  /\ UNCHANGED <<room, outbox>>

\* Transport teardown: the client's handler runs, the coordinator forgets the
\* player, and what was in flight either way is lost.
Disconnected ==
  /\ OnDisconnect
  /\ AfterHandler
  /\ room' = RoomOf(WithoutPlayer(room.players, SelfId), room.revealed)
  /\ outbox' = <<>>
  /\ inbox' = <<>>

\* A user-interface handler whose intents go onto the channel.
Sending ==
  /\ Len(outbox) + Len(emitted') <= MaxOutbox
  /\ outbox' = outbox \o emitted'
  /\ AfterHandler
  /\ UNCHANGED <<room, inbox>>

NextSys ==
  \/ ScriptOnLoad /\ Alone
  \/ OnConnect /\ Alone
  \/ Disconnected
  \/ Deliver
  \/ CoordApply
  \/ PeerJoin
  \/ \E v \in PeerCards : PeerVote(v)
  \/ PeerReveal
  \/ PeerReset
  \/ PeerLeave
  \/ \E card \in SelfCards : HandleCardClick(card) /\ Sending
  \/ \E r \in RoomIdInputValues, n \in PlayerNameInputValues :
        HandleJoin(r, n) /\ Sending
  \/ RequestReveal /\ Sending
  \/ RequestReset /\ Sending

SpecSys == Init /\ [][NextSys]_vars

(* ---------------- castVote: C1 ---------------- *)

\* C1: handleCardClick is a no-op unless the client is connected, has a room id
\* and is not revealed: in every other state a click emits nothing and leaves
\* selectedCard unchanged; when all three hold (the socket existing) it sets
\* selectedCard to the clicked card and emits exactly one vote intent
\* {roomId, vote: card}.
C1_CastVoteGuard ==
  [][\A card \in cards :
       HandleCardClick(card) =>
         IF isConnected /\ roomId # "" /\ ~isRevealed /\ socketRef
           THEN selectedCard' = card /\ emitted' = <<VoteIntent(roomId, card)>>
           ELSE selectedCard' = selectedCard /\ emitted' = <<>>]_vars

C1_Witness ==
  /\ lastOp = "handleCardClick"
  /\ isConnected /\ roomId # "" /\ ~isRevealed
  /\ selectedCard \in cards
  /\ emitted = <<VoteIntent(roomId, selectedCard)>>

(* ---------------- requestJoin: C2, C3 ---------------- *)

\* C2: handleJoin with an empty room id or an empty player name is rejected
\* locally: nothing is emitted, error becomes the validation message, and
\* roomId, playerName and players are unchanged.
C2_EmptyJoinRejected ==
  [][\A r \in RoomInputs, n \in NameInputs :
       (r = "" \/ n = "") /\ HandleJoin(r, n) =>
         /\ emitted' = <<>>
         /\ error' = JoinValidationMsg
         /\ UNCHANGED <<roomId, playerName, players>>]_vars

C2_Witness ==
  /\ lastOp = "handleJoin"
  /\ socketRef
  /\ roomId = ""
  /\ error = JoinValidationMsg
  /\ emitted = <<>>

\* C3 as stated: handleJoin with a non-empty room id and a non-empty player
\* name emits exactly one join intent and sets roomId and playerName to the
\* given values in the same step, in every state, the states before the
\* socket exists included.
C3_JoinAlwaysSends ==
  [][\A r \in RoomInputs \ {""}, n \in NameInputs \ {""} :
       HandleJoin(r, n) =>
         /\ emitted' = <<JoinIntent(r, n)>>
         /\ roomId' = r
         /\ playerName' = n]_vars

\* C3 amended: once the socket exists, handleJoin with a non-empty room id and
\* a non-empty player name emits exactly one join intent and sets roomId and
\* playerName to the given values in the same step, connected or not.
C3_JoinSendsOnceSocketExists ==
  [][\A r \in RoomInputs \ {""}, n \in NameInputs \ {""} :
       socketRef /\ HandleJoin(r, n) =>
         /\ emitted' = <<JoinIntent(r, n)>>
         /\ roomId' = r
         /\ playerName' = n]_vars

C3_Witness ==
  /\ lastOp = "handleJoin"
  /\ ~isConnected
  /\ roomId # "" /\ playerName # ""
  /\ emitted = <<JoinIntent(roomId, playerName)>>

(* ---------------- transport events: C4, C5 ---------------- *)

\* C4: every disconnect event sets isConnected to false and clears roomId and
\* players; every connect event sets isConnected to true and leaves roomId and
\* players as they were.
C4_TransportEvents ==
  [][/\ lastOp' = "disconnect" =>
          ~isConnected' /\ roomId' = "" /\ players' = <<>>
     /\ lastOp' = "connect" =>
          isConnected' /\ UNCHANGED <<roomId, players>>]_vars

C4_Witness ==
  /\ lastOp = "disconnect"
  /\ selectedCard # Null
  /\ ~isConnected /\ roomId = "" /\ players = <<>>

\* C5: whenever isConnected is false, roomId is empty and players is the
\* empty list.
C5_NoRoomStateWhileDisconnected ==
  ~isConnected => roomId = "" /\ players = <<>>

(* ---------------- applyBroadcast: C6, C7, C8 ---------------- *)

\* C6 as stated: players is exactly the payload of the most recent
\* list-carrying broadcast; no entry or field is modified locally.
C6_PlayersIsLastPayload == players = lastPayload

\* C6 amended: players has the length, order, ids and names of the most recent
\* list-carrying payload, and each vote is the payload's vote or the masked
\* placeholder, which player_voted writes locally into the matching entry.
C6_PlayersIsLastPayloadUpToMask ==
  /\ Len(players) = Len(lastPayload)
  /\ \A i \in DOMAIN players :
       /\ players[i].id = lastPayload[i].id
       /\ players[i].name = lastPayload[i].name
       /\ players[i].vote \in {lastPayload[i].vote, Masked}

C6_Witness ==
  /\ lastOp = "player_voted"
  /\ \E i \in DOMAIN players :
       players[i].vote = Masked /\ lastPayload[i].vote = 5

\* C7: a game_reset broadcast sets players to its payload, isRevealed to false
\* and selectedCard to null whatever the state before; afterwards, if the
\* client is connected and has a room id, a card click takes effect again.
C7_GameReset ==
  /\ [][\A data \in Payloads :
          OnGameReset(data) =>
            /\ players' = data
            /\ ~isRevealed'
            /\ selectedCard' = Null
            /\ (isConnected' /\ roomId' # "" => CanVote')]_vars
  /\ [][\A card \in cards :
          lastOp = "game_reset" /\ isConnected /\ roomId # ""
            /\ HandleCardClick(card) =>
              selectedCard' = card /\ emitted' = <<VoteIntent(roomId, card)>>]_vars

C7_Witness ==
  /\ lastOp = "game_reset"
  /\ isConnected /\ roomId # ""
  /\ players # <<>>
  /\ ~isRevealed /\ selectedCard = Null

\* C8: a player_voted broadcast, for any playerId, leaves selectedCard,
\* isRevealed and roomId unchanged and changes at most the vote field of the
\* entries whose id is playerId, to the masked placeholder.
C8_PlayerVotedFrame ==
  [][\A playerId \in PlayerIds :
       OnPlayerVoted(playerId) =>
         /\ UNCHANGED <<selectedCard, isRevealed, roomId>>
         /\ Len(players') = Len(players)
         /\ \A i \in DOMAIN players :
              /\ players'[i].id = players[i].id
              /\ players'[i].name = players[i].name
              /\ \/ players'[i].vote = players[i].vote
                 \/ players[i].id = playerId /\ players'[i].vote = Masked]_vars

C8_Witness ==
  /\ lastOp = "player_voted"
  /\ selectedCard # Null
  /\ roomId # ""
  /\ \E i \in DOMAIN players :
       players[i].vote = Masked /\ lastPayload[i].vote = Null

(* ---------------- reveal and the client state machine: C9, C10 ---------------- *)

\* C9: a votes_revealed broadcast sets players to its payload and isRevealed
\* to true; from then on, until a game_reset broadcast is applied, isRevealed
\* stays true, no vote intent is emitted and selectedCard does not change,
\* whichever handlers run.
C9_RevealFreezesVoting ==
  /\ [][\A data \in Payloads :
          OnVotesRevealed(data) => players' = data /\ isRevealed']_vars
  /\ [][isRevealed /\ lastOp' # "game_reset" =>
          /\ isRevealed'
          /\ selectedCard' = selectedCard
          /\ \A k \in DOMAIN emitted' : emitted'[k].type # "vote"]_vars

C9_Witness ==
  /\ lastOp = "handleCardClick"
  /\ isRevealed /\ isConnected /\ roomId # ""
  /\ emitted = <<>>

\* C10: every time the client enters a room through handleJoin, a re-join
\* after a disconnect that happened while revealed included, it enters with
\* isRevealed false.
C10_JoinEntersHidden ==
  lastOp = "handleJoin" /\ emitted # <<>> => ~isRevealed

(* ---------------- requestReveal / requestReset: C11 ---------------- *)

\* C11 as stated: in every state with a non-empty roomId, whatever isRevealed
\* and isConnected are, the reveal button sends a reveal intent {roomId} and
\* the reset button sends a reset intent {roomId}; neither changes local state.
C11_ForwardersUnconditional ==
  [][roomId # "" =>
       /\ lastOp' = "reveal" => emitted' = <<RevealIntent(roomId)>>
       /\ lastOp' = "reset" => emitted' = <<ResetIntent(roomId)>>
       /\ lastOp' \in {"reveal", "reset"} =>
            UNCHANGED <<selectedCard, roomId, playerName, players, isRevealed,
                        isConnected, error>>]_vars

\* C11 amended: in every state with a non-empty roomId in which the socket
\* exists, the reset button sends a reset intent {roomId} whatever isRevealed
\* and isConnected are, and the reveal button sends a reveal intent {roomId}
\* exactly when isConnected is true and isRevealed is false (it is disabled
\* otherwise); neither changes local state.
C11_ForwardersWhenEnabled ==
  [][roomId # "" /\ socketRef =>
       /\ lastOp' = "reveal" =>
            emitted' = IF isConnected /\ ~isRevealed
                         THEN <<RevealIntent(roomId)>> ELSE <<>>
       /\ lastOp' = "reset" => emitted' = <<ResetIntent(roomId)>>
       /\ lastOp' \in {"reveal", "reset"} =>
            UNCHANGED <<selectedCard, roomId, playerName, players, isRevealed,
                        isConnected, error>>]_vars

C11_Witness ==
  /\ lastOp = "reset"
  /\ ~isConnected /\ isRevealed
  /\ roomId # ""
  /\ emitted = <<ResetIntent(roomId)>>

(* ---------------- computeAverage: C12, C13 ---------------- *)

Tenths(t) == ToString(t \div 10) \o "." \o ToString(t % 10)

Abs(x) == IF x < 0 THEN 0 - x ELSE x

\* The entries whose vote is a real number.
RealVoteEntries == {i \in DOMAIN players : players[i].vote \in cards}

RECURSIVE SumOfVotes(_)
SumOfVotes(entries) ==
  IF entries = {} THEN 0
  ELSE LET i == CHOOSE i \in entries : TRUE
       IN  players[i].vote + SumOfVotes(entries \ {i})

\* C12: the average shown is the arithmetic mean of exactly the entries whose
\* vote is a real number, rounded to one fractional digit (a tenth nearest to
\* the mean, written with one digit after the point); votes 3, 5, 8 with the
\* other entries null or masked give "5.3", votes 5, 8 give "6.5".
C12_AverageIsRoundedMean ==
  lastOp = "render" /\ RealVoteEntries # {} =>
    LET n == Cardinality(RealVoteEntries)
        sum == SumOfVotes(RealVoteEntries)
        votes == {players[i].vote : i \in RealVoteEntries}
    IN  /\ \E t \in 0..210 :
             /\ 2 * Abs(10 * sum - t * n) <= n
             /\ averageShown = Tenths(t)
        /\ n = 3 /\ votes = {3, 5, 8} => averageShown = "5.3"
        /\ n = 2 /\ votes = {5, 8} => averageShown = "6.5"

C12_Witness ==
  /\ lastOp = "render"
  /\ Len(players) = 4
  /\ \E i \in DOMAIN players : players[i].vote = Masked
  /\ {players[i].vote : i \in RealVoteEntries} = {3, 5, 8}
  /\ averageShown = "5.3"

\* C13: the average is exactly "0" whenever no entry of players has a numeric
\* vote: the empty list, or every vote null or masked.
C13_AverageOfNoVotesIsZero ==
  lastOp = "render" /\ RealVoteEntries = {} => averageShown = "0"

C13_Witness ==
  /\ lastOp = "render"
  /\ \E i \in DOMAIN players : players[i].vote = Masked
  /\ \E i \in DOMAIN players : players[i].vote = Null
  /\ RealVoteEntries = {}
  /\ averageShown = "0"

(* ---------------- emitted intents: C18, C19, C20 ---------------- *)

\* C18: every vote, reveal and reset intent emitted carries a non-empty roomId
\* equal to the client's roomId when it is sent, every vote intent carries a
\* value of cards, and none of the three is emitted while roomId is empty.
C18_IntentsCarryRoom ==
  [][\A k \in DOMAIN emitted' :
       emitted'[k].type \in {"vote", "reveal", "reset"} =>
         /\ roomId # ""
         /\ emitted'[k].roomId = roomId
         /\ emitted'[k].type = "vote" => emitted'[k].vote \in cards]_vars

C18_Witness ==
  /\ lastOp = "reveal"
  /\ roomId # ""
  /\ emitted = <<RevealIntent(roomId)>>

\* C19: selectedCard belongs to the current round of the current membership;
\* in particular it is null right after handleJoin has entered a room.
C19_SelectionOfThisMembership ==
  lastOp = "handleJoin" /\ emitted # <<>> => selectedCard = Null

\* C20: between a connect event and the next disconnect the client emits at
\* most one join intent, and the roomId of an emitted join intent is the
\* client's roomId after the step.
C20_OneJoinPerConnection ==
  /\ joinCount <= 1
  /\ \A k \in DOMAIN emitted :
       emitted[k].type = "join" => emitted[k].roomId = roomId

(* ---------------- the client and the coordinator: C14 - C17 ---------------- *)

\* Every intent sent has been applied and every broadcast delivered.
Quiescent == outbox = <<>> /\ inbox = <<>>

Ids(ps) == [i \in DOMAIN ps |-> ps[i].id]

\* C14: once all intents are applied and all broadcasts delivered, a connected
\* client that is a member of the room has isRevealed equal to the room's
\* revealed flag and a players list with the room's member ids in the room's
\* order, a client that joined after the reveal included.
C14_ViewMatchesRoom ==
  Quiescent /\ isConnected /\ IsMember(SelfId) =>
    /\ isRevealed = room.revealed
    /\ Ids(players) = Ids(room.players)

\* C15: two members vote, their votes applied in either order, then one
\* reveal: once the client has applied the votes_revealed broadcast (nothing
\* later in flight) isRevealed is true and players is the room's list with
\* every vote cast as its number, the average shown being that of the room;
\* once it has applied the following game_reset every vote is null, and the
\* average is "0".
C15_RevealCarriesAllVotes ==
  /\ lastOp = "votes_revealed" /\ inbox = <<>> =>
       /\ isRevealed
       /\ players = room.players
       /\ \A i \in DOMAIN players : players[i].vote \in cards \cup {Null}
       /\ roomId # "" => averageShown = calculateAverage(room.players)
  /\ lastOp = "game_reset" /\ inbox = <<>> =>
       /\ ~isRevealed
       /\ players = room.players
       /\ \A i \in DOMAIN players : players[i].vote = Null
       /\ calculateAverage(players) = "0"

C15_Witness ==
  /\ lastOp = "votes_revealed"
  /\ inbox = <<>>
  /\ isRevealed
  /\ {players[i] : i \in DOMAIN players} =
       {[id |-> SelfId, name |-> "A", vote |-> 5],
        [id |-> PeerId, name |-> "B", vote |-> 8]}
  /\ averageShown = "6.5"

\* C16: with every broadcast delivered, a client that is a member of a room
\* that is not revealed shows no player's numeric vote and no average.
C16_HiddenUntilReveal ==
  inbox = <<>> /\ isConnected /\ roomId # "" /\ IsMember(SelfId)
    /\ ~room.revealed =>
      /\ \A i \in DOMAIN players : VoteCell(players[i]) = Masked
      /\ averageShown = ""

\* C17: whenever isRevealed is true, no entry of players has the masked
\* placeholder as its vote.
C17_NoMaskWhileRevealed ==
  isRevealed => \A i \in DOMAIN players : players[i].vote # Masked

====
